---- MODULE Spec2Model ----
(***************************************************************************)
(* Model of the beacon checkpoint scanner's configuration and delivery     *)
(* client (src/scanner.py): SystemConfig, HTTPClient and                   *)
(* HTTPClient.send_beacon_data, with the retry behaviour the session is    *)
(* configured with in HTTPClient._create_session.                          *)
(*                                                                         *)
(* Conventions: an Optional value is a sequence of length at most one      *)
(* (None is <<>>, a present value v is <<v>>); the text of an environment  *)
(* variable is a sequence of one-character strings.                        *)
(***************************************************************************)
EXTENDS Integers, Sequences, FiniteSets, TLC

VARIABLES
    environ,      \* os.environ: the variables that are set, with their text
    pc,           \* position of the program
    config,       \* Optional SystemConfig
    configError,  \* Optional message of the ValueError SystemConfig() raised
    client,       \* Optional HTTPClient: [config, session]
    sessions,     \* number of requests.Session objects created so far
    calls,        \* number of send_beacon_data calls started so far
    data,         \* Optional BeaconData: the argument of the current/last call
    payload,      \* Optional dict built at scanner.py:112-113
    retry,        \* the urllib3 Retry state of the request in flight
    log,          \* outcomes of the send attempts of the current/last call
    wire,         \* form bodies put on the wire, one per send attempt
    delays,       \* sleeps taken between the attempts of the current/last call
    result,       \* how the current/last call ended
    now,          \* the clock of the detection pipeline
    lastAcceptedAt, \* Debouncer: beacon -> Optional time of its last acceptance
    events,       \* every detection so far: [beaconId, rssi, t, accepted]
    batcher,      \* Batcher: [open, since, emitted]
    futures,      \* post.py: runner -> [phase, sent, answered]
    posts,        \* post.py: the requests started, in order: [minor, detection]
    competition,  \* post.py: position of simulate_competition
    mpc,          \* main.py: position of main()
    handlerPosts, \* main.py: calls of post_to_handler so far
    waited,       \* main.py: seconds spent blocked in requests.post
    answer,       \* main.py: Optional outcome of the request
    stdout        \* main.py: lines printed so far

configVars == <<environ, config, configError>>
clientVars == <<client, sessions>>
callVars   == <<calls, data, payload, retry, log, wire, delays, result>>
pipelineVars == <<now, lastAcceptedAt, events, batcher>>
postVars == <<futures, posts, competition>>
mainVars == <<mpc, handlerPosts, waited, answer, stdout>>
elsewhere == <<pipelineVars, postVars, mainVars>>
vars == <<environ, pc, config, configError, client, sessions, calls, data,
          payload, retry, log, wire, delays, result, now, lastAcceptedAt,
          events, batcher, futures, posts, competition, mpc, handlerPosts,
          waited, answer, stdout>>

None == <<>>
Some(x) == <<x>>

----------------------------------------------------------------------------
(* Bounds of the exploration *)

\* at most this many environment variables are set when the program starts
MaxEnvSet == 2
\* at most this many send_beacon_data calls are made on the client
MaxCalls == 2
\* at most this many detections reach the pipeline
MaxEvents == 3
\* the pipeline's clock runs from 0 to this
MaxTime == 3
\* main.py's request is watched for this many seconds
MaxWait == 5

----------------------------------------------------------------------------
(* int(text): optional sign, then one or more decimal digits *)

Digits == <<"0", "1", "2", "3", "4", "5", "6", "7", "8", "9">>

IsDigit(c) == \E i \in 1..10 : Digits[i] = c

DigitValue(c) == (CHOOSE i \in 1..10 : Digits[i] = c) - 1

RECURSIVE DigitsValue(_, _)
DigitsValue(s, acc) ==
    IF s = <<>> THEN acc
    ELSE DigitsValue(Tail(s), 10 * acc + DigitValue(Head(s)))

IsSign(c) == c = "-" \/ c = "+"

Unsigned(s) == IF s # <<>> /\ IsSign(Head(s)) THEN Tail(s) ELSE s

\* int() raises ValueError unless the text is a well-formed integer literal
IntOk(s) ==
    /\ Unsigned(s) # <<>>
    /\ \A i \in 1..Len(Unsigned(s)) : IsDigit(Unsigned(s)[i])

int(s) ==
    IF s # <<>> /\ Head(s) = "-"
    THEN 0 - DigitsValue(Unsigned(s), 0)
    ELSE DigitsValue(Unsigned(s), 0)

----------------------------------------------------------------------------
(* The process environment *)

EnvNames == {"HANDLER_ENDPOINT", "BEACON_UUID", "RSSI_THRESHOLD",
             "SCAN_INTERVAL", "CHECKPOINT_ID", "BATCH_SIZE", "BATCH_TIMEOUT",
             "MAX_RETRIES", "RETRY_DELAY", "REQUEST_TIMEOUT"}

IntNames == EnvNames \ {"HANDLER_ENDPOINT", "BEACON_UUID"}

\* defaults of os.getenv in SystemConfig.__init__ (URL and UUID abbreviated)
DefaultText(name) ==
    CASE name = "HANDLER_ENDPOINT" -> <<"h", "t", "t", "p", ":", "/", "/", "c">>
      [] name = "BEACON_UUID"      -> <<"b", "9">>
      [] name = "RSSI_THRESHOLD"   -> <<"-", "7", "5">>
      [] name = "SCAN_INTERVAL"    -> <<"2">>
      [] name = "CHECKPOINT_ID"    -> <<"1">>
      [] name = "BATCH_SIZE"       -> <<"1", "0">>
      [] name = "BATCH_TIMEOUT"    -> <<"5">>
      [] name = "MAX_RETRIES"      -> <<"3">>
      [] name = "RETRY_DELAY"      -> <<"1">>
      [] name = "REQUEST_TIMEOUT"  -> <<"5">>

getenv(env, name) == IF name \in DOMAIN env THEN env[name] ELSE DefaultText(name)

\* texts an operator may put in each variable
EnvTexts(name) ==
    CASE name = "HANDLER_ENDPOINT" -> {<<>>, <<"h", "t", "t", "p", "s", ":", "/", "/", "c">>}
      [] name = "BEACON_UUID"      -> {<<"a", "1">>}
      [] name = "RSSI_THRESHOLD"   -> {<<"-", "1">>, <<"0">>, <<"5">>, <<"x">>}
      [] name = "SCAN_INTERVAL"    -> {<<"1">>, <<"0">>, <<"-", "1">>, <<>>}
      [] name = "CHECKPOINT_ID"    -> {<<"7">>, <<"-", "2">>}
      [] name = "BATCH_SIZE"       -> {<<"1">>, <<"0">>, <<"2">>}
      [] name = "BATCH_TIMEOUT"    -> {<<"1">>, <<"0">>}
      [] name = "MAX_RETRIES"      -> {<<"0">>, <<"1">>, <<"2">>, <<"-", "1">>}
      [] name = "RETRY_DELAY"      -> {<<"0">>, <<"2">>, <<"-", "1">>}
      [] name = "REQUEST_TIMEOUT"  -> {<<"1">>, <<"0">>}

AllTexts == UNION {EnvTexts(n) : n \in EnvNames}

EnvsOver(S) == {f \in [S -> AllTexts] : \A n \in S : f[n] \in EnvTexts(n)}

Environments(names) ==
    UNION {EnvsOver(S) : S \in {T \in SUBSET names : Cardinality(T) <= MaxEnvSet}}

----------------------------------------------------------------------------
(* SystemConfig *)

\* scanner.py:43-52: the fields as read from the environment
ReadConfig(env) ==
    [ENDPOINT        |-> getenv(env, "HANDLER_ENDPOINT"),
     BEACON_UUID     |-> getenv(env, "BEACON_UUID"),
     RSSI_THRESHOLD  |-> int(getenv(env, "RSSI_THRESHOLD")),
     SCAN_INTERVAL   |-> int(getenv(env, "SCAN_INTERVAL")),
     CHECKPOINT_ID   |-> int(getenv(env, "CHECKPOINT_ID")),
     BATCH_SIZE      |-> int(getenv(env, "BATCH_SIZE")),
     BATCH_TIMEOUT   |-> int(getenv(env, "BATCH_TIMEOUT")),
     MAX_RETRIES     |-> int(getenv(env, "MAX_RETRIES")),
     RETRY_DELAY     |-> int(getenv(env, "RETRY_DELAY")),
     REQUEST_TIMEOUT |-> int(getenv(env, "REQUEST_TIMEOUT"))]

\* every int(os.getenv(...)) of scanner.py:45-52 succeeds
EnvParses(env) == \A n \in IntNames : IntOk(getenv(env, n))

\* _validate_config accepting a scan interval of zero
validate_config_zero_interval(c) ==
    IF c.RSSI_THRESHOLD > 0 THEN Some("RSSI_THRESHOLD should be negative")
    ELSE IF c.SCAN_INTERVAL < 0 THEN Some("SCAN_INTERVAL must be at least 1 second")
    ELSE None

\* scanner.py:57-62: the Optional error message of _validate_config
validate_config(c) ==
    IF c.RSSI_THRESHOLD > 0 THEN Some("RSSI_THRESHOLD should be negative")
    ELSE IF c.SCAN_INTERVAL < 1 THEN Some("SCAN_INTERVAL must be at least 1 second")
    ELSE None

\* SystemConfig(): read the environment, then validate; an exception leaves
\* no configuration object behind
SystemConfig ==
    /\ pc = "boot"
    /\ IF ~EnvParses(environ)
       THEN /\ config' = None
            /\ configError' = Some("invalid literal for int()")
            /\ pc' = "failed"
       ELSE IF validate_config(ReadConfig(environ)) # None
       THEN /\ config' = None
            /\ configError' = validate_config(ReadConfig(environ))
            /\ pc' = "failed"
       ELSE /\ config' = Some(ReadConfig(environ))
            /\ configError' = None
            /\ pc' = "configured"
    /\ UNCHANGED <<environ, clientVars, callVars, elsewhere>>

----------------------------------------------------------------------------
(* urllib3 Retry, as configured at scanner.py:75-81 *)

status_forcelist == {408, 429, 500, 502, 503, 504}

\* statuses urllib3 retries when the response carries a Retry-After header
RETRY_AFTER_STATUS_CODES == {413, 429, 503}

\* urllib3 never backs off longer than this many seconds
DEFAULT_BACKOFF_MAX == 120

Min(a, b) == IF a <= b THEN a ELSE b

\* Retry(total=MAX_RETRIES, backoff_factor=RETRY_DELAY, ...); history counts
\* the failed attempts of the request so far
Retry(c) == [total |-> c.MAX_RETRIES, backoff_factor |-> c.RETRY_DELAY,
             history |-> 0]

\* a Retry built without status_forcelist
is_retry_no_forcelist(r, status, has_retry_after) ==
    /\ r.total # 0
    /\ has_retry_after
    /\ status \in RETRY_AFTER_STATUS_CODES

\* Retry.is_retry for a POST (POST is in allowed_methods)
is_retry(r, status, has_retry_after) ==
    \/ status \in status_forcelist
    \/ /\ r.total # 0
       /\ has_retry_after
       /\ status \in RETRY_AFTER_STATUS_CODES

\* Retry.increment: one retry consumed, one more failure remembered
increment(r) == [r EXCEPT !.total = @ - 1, !.history = @ + 1]

\* a Retry that gives up one attempt early
is_exhausted_early(r) == r.total <= 0

\* Retry.is_exhausted: a count of zero is not yet exhausted
is_exhausted(r) == r.total < 0

\* Retry.get_backoff_time: nothing before the first retry, then
\* backoff_factor * 2^(failures - 1), capped
get_backoff_time(r) ==
    IF r.history <= 1 THEN 0
    ELSE Min(DEFAULT_BACKOFF_MAX, r.backoff_factor * 2 ^ (r.history - 1))

\* Retry.sleep: the Retry-After header wins when it asks for a positive wait,
\* otherwise the backoff, and no sleep at all for a backoff <= 0
sleep(r, retry_after) ==
    IF retry_after # None /\ retry_after[1] > 0 THEN retry_after[1]
    ELSE IF get_backoff_time(r) <= 0 THEN 0
    ELSE get_backoff_time(r)

----------------------------------------------------------------------------
(* HTTPClient *)

\* scanner.py:70-93: a new session whose adapter carries the retry strategy
create_session(c, id) == [id |-> id, max_retries |-> Retry(c)]

\* scanner.py:66-68
HTTPClient ==
    /\ pc = "configured"
    /\ sessions' = sessions + 1
    /\ client' = Some([config |-> config[1],
                     session |-> create_session(config[1], sessions + 1)])
    /\ pc' = "idle"
    /\ UNCHANGED <<configVars, callVars, elsewhere>>

----------------------------------------------------------------------------
(* What the caller and the collector can do *)

\* BeaconData records handed to send_beacon_data (scanner.py:23-31)
BeaconInputs ==
    {[minor |-> 96, rssi |-> -60, timestamp |-> 100,
      battery_level |-> None, temperature |-> None, humidity |-> None],
     [minor |-> 97, rssi |-> -80, timestamp |-> 101,
      battery_level |-> Some(90), temperature |-> Some(21), humidity |-> Some(40)]}

\* a response body, by what json.loads makes of it
JsonBodies ==
    {[kind |-> "dict", keys |-> {"status", "message"}],
     [kind |-> "dict", keys |-> {"message"}],
     [kind |-> "list", keys |-> {}],
     [kind |-> "invalid", keys |-> {}]}

ErrorBody == [kind |-> "invalid", keys |-> {}]

InputStatuses == {200, 300, 400, 413, 503}

\* seconds asked for by a Retry-After header, when the response has one
RetryAfterInputs == {None, Some(3)}

\* responses of the collector (none of them a redirection with a Location)
ResponseInputs ==
    {r \in [kind : {"response"}, status : InputStatuses,
            retry_after : RetryAfterInputs, body : JsonBodies] :
        /\ r.retry_after # None => r.status \in {413, 503}
        /\ r.status >= 400 => r.body = ErrorBody}

\* transport failures of one send attempt
FailureInputs ==
    [kind : {"timeout", "connection"}, status : {0},
     retry_after : {None}, body : {ErrorBody}]

----------------------------------------------------------------------------
(* HTTPClient.send_beacon_data *)

NoResult == [kind |-> "none", value |-> None, status_code |-> None,
             response_text |-> None]

\* raise HTTPError(message, status_code, response_text), scanner.py:33-38
HTTPError(status_code, response_text) ==
    [kind |-> "HTTPError", value |-> None, status_code |-> status_code,
     response_text |-> response_text]

ValueError == [kind |-> "ValueError", value |-> None, status_code |-> None,
               response_text |-> None]

\* an exception raised inside the try block: its classes, and the response
\* attached to it (requests exceptions only)
Exc(bases, response) == [bases |-> bases, response |-> response]

ConnectTimeout == Exc({"Timeout", "ConnectionError", "RequestException"}, None)
ConnectionError == Exc({"ConnectionError", "RequestException"}, None)
RetryError == Exc({"RequestException"}, None)
MissingSchema == Exc({"RequestException", "ValueError"}, None)
StatusError(resp) == Exc({"RequestException"}, Some(resp))
InvalidData == Exc({"ValueError"}, None)

\* bool(response): requests' Response is truthy only when its status is no error
Truthy(response) == response # None /\ ~(response[1].status >= 400)

\* scanner.py:146-171: the first except clause that matches, and what it raises
except_clause(e) ==
    IF "Timeout" \in e.bases THEN HTTPError(None, None)
    ELSE IF "ConnectionError" \in e.bases THEN HTTPError(None, None)
    ELSE IF "RequestException" \in e.bases
    THEN HTTPError(IF Truthy(e.response) THEN Some(e.response[1].status) ELSE None,
                   IF Truthy(e.response) THEN Some(e.response[1].body) ELSE None)
    ELSE IF "ValueError" \in e.bases THEN ValueError
    ELSE [kind |-> "Exception", value |-> None, status_code |-> None,
          response_text |-> None]

\* the response handling without the check for the 'status' field
process_response_unchecked(resp) ==
    IF resp.status >= 400 /\ resp.status < 600 THEN except_clause(StatusError(resp))
    ELSE IF resp.body.kind = "invalid" THEN except_clause(InvalidData)
    ELSE IF resp.body.kind # "dict" THEN except_clause(InvalidData)
    ELSE [kind |-> "returned", value |-> Some(resp.body), status_code |-> None,
          response_text |-> None]

\* scanner.py:125-144: raise_for_status, json(), the two structure checks
process_response(resp) ==
    IF resp.status >= 400 /\ resp.status < 600 THEN except_clause(StatusError(resp))
    ELSE IF resp.body.kind = "invalid" THEN except_clause(InvalidData)
    ELSE IF resp.body.kind # "dict" THEN except_clause(InvalidData)
    ELSE IF "status" \notin resp.body.keys THEN except_clause(InvalidData)
    ELSE [kind |-> "returned", value |-> Some(resp.body), status_code |-> None,
          response_text |-> None]

\* scanner.py:112-113: asdict(data) is a fresh dict, checkpoint_id added to it
asdict(d) ==
    [minor |-> d.minor, rssi |-> d.rssi, timestamp |-> d.timestamp,
     battery_level |-> d.battery_level, temperature |-> d.temperature,
     humidity |-> d.humidity]

\* a payload to which checkpoint_id is never added
build_payload_without_checkpoint(d, c) == asdict(d)

build_payload(d, c) ==
    [k \in DOMAIN asdict(d) \cup {"checkpoint_id"} |->
        IF k = "checkpoint_id" THEN c.CHECKPOINT_ID ELSE asdict(d)[k]]

OptionalKeys == {"battery_level", "temperature", "humidity"}

\* the decimal text of a natural number
RECURSIVE NatText(_)
NatText(n) ==
    IF n < 10 THEN <<Digits[n + 1]>>
    ELSE Append(NatText(n \div 10), Digits[(n % 10) + 1])

\* str(n) of an integer, as the form encoding writes a value
str(n) == IF n < 0 THEN <<"-">> \o NatText(0 - n) ELSE NatText(n)

\* requests form-encodes data=payload: the fields that are None are left out,
\* every other value is written as text
encode_params(p) ==
    [k \in {f \in DOMAIN p : f \in OptionalKeys => p[f] # None} |->
        IF k \in OptionalKeys THEN str(p[k][1]) ELSE str(p[k])]

StartsWith(s, prefix) ==
    /\ Len(s) >= Len(prefix)
    /\ SubSeq(s, 1, Len(prefix)) = prefix

\* the session has adapters mounted for http:// and https:// only
UrlAccepted(url) ==
    \/ StartsWith(url, <<"h", "t", "t", "p", ":", "/", "/">>)
    \/ StartsWith(url, <<"h", "t", "t", "p", "s", ":", "/", "/">>)

\* a call that opens a session of its own
CallFrame_new_session ==
    /\ sessions' = sessions + 1
    /\ client' = Some([config |-> config[1],
                     session |-> create_session(config[1], sessions + 1)])
    /\ UNCHANGED <<configVars, elsewhere>>

\* what a call leaves alone: it only reads self.config and self.session
CallFrame == UNCHANGED <<configVars, clientVars, elsewhere>>

\* scanner.py:110-123 up to the first send attempt; a bad URL or timeout
\* value ends the call before anything is sent
send_beacon_data(d) ==
    /\ pc = "idle"
    /\ calls < MaxCalls
    /\ calls' = calls + 1
    /\ data' = Some(d)
    /\ payload' = Some(build_payload(d, client[1].config))
    /\ log' = <<>>
    /\ wire' = <<>>
    /\ delays' = <<>>
    /\ retry' = client[1].session.max_retries
    /\ IF ~UrlAccepted(client[1].config.ENDPOINT)
       THEN result' = except_clause(MissingSchema) /\ pc' = "idle"
       ELSE IF client[1].config.REQUEST_TIMEOUT <= 0
       THEN result' = except_clause(InvalidData) /\ pc' = "idle"
       ELSE result' = NoResult /\ pc' = "posting"
    /\ CallFrame

\* one send attempt that ends in a timeout or a connection failure
AttemptFails(f) ==
    /\ pc = "posting"
    /\ log' = Append(log, f)
    /\ wire' = Append(wire, encode_params(payload[1]))
    /\ IF is_exhausted(increment(retry))
       THEN /\ result' = except_clause(IF f.kind = "timeout" THEN ConnectTimeout
                                       ELSE ConnectionError)
            /\ pc' = "idle"
            /\ UNCHANGED <<retry, delays>>
       ELSE /\ retry' = increment(retry)
            /\ delays' = Append(delays, sleep(increment(retry), None))
            /\ UNCHANGED <<result, pc>>
    /\ UNCHANGED <<calls, data, payload>>
    /\ CallFrame

\* one send attempt that the collector answers
AttemptAnswered(resp) ==
    /\ pc = "posting"
    /\ log' = Append(log, resp)
    /\ wire' = Append(wire, encode_params(payload[1]))
    /\ IF is_retry(retry, resp.status, resp.retry_after # None)
       THEN IF is_exhausted(increment(retry))
            THEN /\ result' = except_clause(RetryError)
                 /\ pc' = "idle"
                 /\ UNCHANGED <<retry, delays>>
            ELSE /\ retry' = increment(retry)
                 /\ delays' = Append(delays, sleep(increment(retry), resp.retry_after))
                 /\ UNCHANGED <<result, pc>>
       ELSE /\ result' = process_response(resp)
            /\ pc' = "idle"
            /\ UNCHANGED <<retry, delays>>
    /\ UNCHANGED <<calls, data, payload>>
    /\ CallFrame

----------------------------------------------------------------------------
(* The detection pipeline of BeaconScanner: Debouncer and Batcher.  Their code
   is the part of scanner.py that line 180 leaves out; they are written here
   from sections 4.1 and 4.2 of the design document. *)

Beacons == {96, 97}

\* detections the source produces: <<beacon, signal strength>>
DetectionInputs == {<<96, -60>>, <<96, -80>>, <<97, -60>>}

\* Debouncer: a signal weaker than the threshold is not to be trusted
strong_enough_always(c, rssi) == TRUE

strong_enough(c, rssi) == ~(rssi < c.RSSI_THRESHOLD)

\* the cool-down window is the configured scan interval
cooldown(c) == c.SCAN_INTERVAL

\* Debouncer: the beacon is idle (no prior acceptance, or the window elapsed)
idle_always(last, b, t, c) == TRUE

idle(last, b, t, c) ==
    \/ last[b] = None
    \/ t - last[b][1] >= cooldown(c)

\* Debouncer.accept(event)
accept(last, b, rssi, t, c) == strong_enough(c, rssi) /\ idle(last, b, t, c)

EmptyBatcher == [open |-> <<>>, since |-> None, emitted |-> <<>>]

\* close the open batch and hand it over
emit(bt) ==
    [open |-> <<>>, since |-> None,
     emitted |-> Append(bt.emitted, [records |-> bt.open, first_at |-> bt.since[1]])]

\* an add that hands the batch over and keeps its records in the open batch
add_keep_open(bt, record, t, c) ==
    LET filled == [bt EXCEPT !.open = Append(bt.open, record),
                             !.since = IF bt.open = <<>> THEN Some(t) ELSE bt.since]
    IN  IF Len(filled.open) >= c.BATCH_SIZE
        THEN [emit(filled) EXCEPT !.open = filled.open, !.since = filled.since]
        ELSE filled

\* Batcher.add(record): append, start the clock on the first record, emit at
\* once when the batch reaches BATCH_SIZE
add(bt, record, t, c) ==
    LET filled == [bt EXCEPT !.open = Append(bt.open, record),
                             !.since = IF bt.open = <<>> THEN Some(t) ELSE bt.since]
    IN  IF Len(filled.open) >= c.BATCH_SIZE THEN emit(filled) ELSE filled

\* BATCH_TIMEOUT has elapsed since the first record of the open batch
expired(bt, t, c) == bt.open # <<>> /\ t - bt.since[1] >= c.BATCH_TIMEOUT

PipelineFrame == UNCHANGED <<configVars, clientVars, callVars, postVars, mainVars>>

\* one DetectionEvent passes through the Debouncer and, if accepted, the Batcher
Detection(b, rssi) ==
    /\ pc = "configured"
    /\ Len(events) < MaxEvents
    /\ LET ok == accept(lastAcceptedAt, b, rssi, now, config[1])
           record == [id |-> Len(events) + 1, minor |-> b, rssi |-> rssi,
                      timestamp |-> now]
       IN  /\ events' = Append(events, [beaconId |-> b, rssi |-> rssi, t |-> now,
                                        accepted |-> ok])
           /\ lastAcceptedAt' = IF ok THEN [lastAcceptedAt EXCEPT ![b] = Some(now)]
                                ELSE lastAcceptedAt
           /\ batcher' = IF ok THEN add(batcher, record, now, config[1])
                         ELSE batcher
    /\ UNCHANGED <<pc, now>>
    /\ PipelineFrame

\* Batcher.flushIfExpired(), driven by the timer
flushIfExpired ==
    /\ pc = "configured"
    /\ expired(batcher, now, config[1])
    /\ batcher' = emit(batcher)
    /\ UNCHANGED <<pc, now, lastAcceptedAt, events>>
    /\ PipelineFrame

\* time passes; the timer fires before time moves past an expiry
Tick ==
    /\ pc = "configured"
    /\ now < MaxTime
    /\ ~expired(batcher, now, config[1])
    /\ now' = now + 1
    /\ UNCHANGED <<pc, lastAcceptedAt, events, batcher>>
    /\ PipelineFrame

\* shutdown: no more detections, the open non-empty batch is flushed
Shutdown ==
    /\ pc = "configured"
    /\ pc' = "stopped"
    /\ batcher' = IF batcher.open # <<>> THEN emit(batcher) ELSE batcher
    /\ UNCHANGED <<now, lastAcceptedAt, events>>
    /\ PipelineFrame

----------------------------------------------------------------------------
(* post.py: simulate_runner and simulate_competition *)

\* post.py:37-41
runners ==
    <<[minor |-> 96, count |-> 3, interval |-> 6],
      [minor |-> 97, count |-> 3, interval |-> 5],
      [minor |-> 98, count |-> 3, interval |-> 4]>>

\* what one requests.post of a runner comes to
PostOutcomes ==
    [kind : {"response"}, body : JsonBodies] \cup
    {[kind |-> "failure", body |-> ErrorBody]}

\* post.py:20-27: how the try statement of one detection ends: a line printed,
\* an exception caught by one of the two except clauses, or one that escapes
try_detection(o) ==
    IF o.kind = "failure" THEN "RequestException"
    ELSE IF o.body.kind = "invalid" THEN "JSONDecodeError"
    ELSE IF o.body.kind # "dict" THEN "TypeError"
    ELSE IF "message" \notin o.body.keys THEN "KeyError"
    ELSE IF "status" \notin o.body.keys THEN "KeyError"
    ELSE "printed"

Escapes(how) == how \in {"TypeError", "KeyError"}

Submitted == [phase |-> "ready", sent |-> 0, answered |-> 0]

Finished(f) == f.phase \in {"done", "raised"}

PostFrame ==
    UNCHANGED <<pc, configVars, clientVars, callVars, pipelineVars, mainVars>>

\* post.py:18-21: the next iteration of range(count) starts its request
post_detection(r) ==
    /\ competition = "running"
    /\ futures[r].phase = "ready"
    /\ futures' = [futures EXCEPT ![r].phase = "posting", ![r].sent = @ + 1]
    /\ posts' = Append(posts, [minor |-> runners[r].minor,
                               detection |-> futures[r].sent + 1])
    /\ UNCHANGED competition
    /\ PostFrame

\* post.py:21-27: the request comes back (or fails) and the try statement ends
detection_answered(r, o) ==
    /\ futures[r].phase = "posting"
    /\ futures' = [futures EXCEPT
          ![r].answered = @ + 1,
          ![r].phase = IF Escapes(try_detection(o)) THEN "raised" ELSE "sleeping"]
    /\ UNCHANGED <<posts, competition>>
    /\ PostFrame

\* post.py:28 and 18: time.sleep(interval) returns; the loop goes on or ends
sleep_returns(r) ==
    /\ futures[r].phase = "sleeping"
    /\ futures' = [futures EXCEPT
          ![r].phase = IF futures[r].sent < runners[r].count THEN "ready" ELSE "done"]
    /\ UNCHANGED <<posts, competition>>
    /\ PostFrame

\* a with block that does not wait for the runners
JoinReady_nowait == TRUE

\* post.py:43-52: future.result() of every future, and the executor's shutdown
\* at the end of the with block, wait for every runner
JoinReady == \A r \in DOMAIN futures : Finished(futures[r])

\* post.py:51-52: simulate_competition returns, or raises what a runner raised
simulate_competition_ends ==
    /\ competition = "running"
    /\ JoinReady
    /\ competition' = IF \E r \in DOMAIN futures : futures[r].phase = "raised"
                      THEN "raised" ELSE "returned"
    /\ UNCHANGED <<futures, posts>>
    /\ PostFrame

----------------------------------------------------------------------------
(* main.py *)

\* main.py:7
messages == <<"hello", "minor:96", "test", "minor:95">>

\* main.py:8-12: the messages printed by one call, and what it returns
RECURSIVE detect_from(_)
detect_from(i) ==
    IF i > Len(messages) THEN [printed |-> <<>>, found |-> FALSE]
    ELSE IF messages[i] = "minor:96"
    THEN [printed |-> <<messages[i]>>, found |-> TRUE]
    ELSE [printed |-> <<messages[i]>> \o detect_from(i + 1).printed,
          found |-> detect_from(i + 1).found]

detect_message == detect_from(1)

\* what the handler answers, or how the request fails
HandlerStatuses == {200, 201, 400, 404, 500, 503}
HandlerTexts == {"", "ok", "error"}
HandlerOutcomes ==
    [kind : {"response"}, status_code : HandlerStatuses, text : HandlerTexts] \cup
    [kind : {"ConnectionError", "TooManyRedirects"}, status_code : {0}, text : {""}]

Line(what, status, text) == [what |-> what, status_code |-> status, text |-> text]

DetectedLines(printed) ==
    [i \in 1..Len(printed) |-> Line("Detected message", 0, printed[i])]

\* main.py:20-25: the line post_to_handler prints for an outcome
report(o) ==
    IF o.kind # "response" THEN Line("An error occurred", 0, o.kind)
    ELSE IF o.status_code = 200 THEN Line("Successfully posted to handler.php", 0, "")
    ELSE Line("Failed to post", o.status_code, o.text)

MainFrame ==
    UNCHANGED <<pc, configVars, clientVars, callVars, pipelineVars, postVars>>

\* main.py:28-32 and 15-19: one iteration of the loop: detect_message(), then
\* either the request of post_to_handler is sent, or sleep(1) and again
main_loop ==
    /\ mpc = "loop"
    /\ stdout' = stdout \o DetectedLines(detect_message.printed)
    /\ IF detect_message.found
       THEN /\ mpc' = "posting"
            /\ handlerPosts' = handlerPosts + 1
       ELSE UNCHANGED <<mpc, handlerPosts>>
    /\ UNCHANGED <<waited, answer>>
    /\ MainFrame

\* main.py:19: requests.post has no timeout: another second without an answer
still_waiting ==
    /\ mpc = "posting"
    /\ waited < MaxWait
    /\ waited' = waited + 1
    /\ UNCHANGED <<mpc, handlerPosts, answer, stdout>>
    /\ MainFrame

\* main.py:19-25 and 31: the request ends, its outcome is printed, main() breaks
post_ends(o) ==
    /\ mpc = "posting"
    /\ answer' = Some(o)
    /\ stdout' = Append(stdout, report(o))
    /\ mpc' = "done"
    /\ UNCHANGED <<handlerPosts, waited>>
    /\ MainFrame

----------------------------------------------------------------------------
(* Specifications *)

InitRest ==
    /\ pc = "boot"
    /\ config = None
    /\ configError = None
    /\ client = None
    /\ sessions = 0
    /\ calls = 0
    /\ data = None
    /\ payload = None
    /\ retry = [total |-> 0, backoff_factor |-> 0, history |-> 0]
    /\ log = <<>>
    /\ wire = <<>>
    /\ delays = <<>>
    /\ result = NoResult
    /\ now = 0
    /\ lastAcceptedAt = [b \in Beacons |-> None]
    /\ events = <<>>
    /\ batcher = EmptyBatcher
    /\ futures = [r \in DOMAIN runners |-> Submitted]
    /\ posts = <<>>
    /\ competition = "running"
    /\ mpc = "loop"
    /\ handlerPosts = 0
    /\ waited = 0
    /\ answer = None
    /\ stdout = <<>>

\* the variables that matter to a delivery
DeliveryNames == {"HANDLER_ENDPOINT", "CHECKPOINT_ID", "MAX_RETRIES",
                  "RETRY_DELAY", "REQUEST_TIMEOUT"}

\* startup under any environment: construction of the configuration and client
InitConfig == environ \in Environments(EnvNames) /\ InitRest

NextConfig == SystemConfig \/ HTTPClient

SpecConfig == InitConfig /\ [][NextConfig]_vars

\* startup followed by deliveries
Init == environ \in Environments(DeliveryNames) /\ InitRest

Next ==
    \/ SystemConfig
    \/ HTTPClient
    \/ \E d \in BeaconInputs : send_beacon_data(d)
    \/ \E f \in FailureInputs : AttemptFails(f)
    \/ \E r \in ResponseInputs : AttemptAnswered(r)

Spec == Init /\ [][Next]_vars

\* the variables that matter to the detection pipeline
PipelineNames == {"RSSI_THRESHOLD", "SCAN_INTERVAL", "BATCH_SIZE", "BATCH_TIMEOUT"}

\* startup followed by detections, timer flushes and shutdown
InitPipeline == environ \in Environments(PipelineNames) /\ InitRest

NextPipeline ==
    \/ SystemConfig
    \/ \E d \in DetectionInputs : Detection(d[1], d[2])
    \/ flushIfExpired
    \/ Tick
    \/ Shutdown

SpecPipeline == InitPipeline /\ [][NextPipeline]_vars

\* post.py: simulate_competition with its three runners submitted
InitPost == environ \in Environments({}) /\ InitRest

NextPost ==
    \/ \E r \in DOMAIN runners : post_detection(r)
    \/ \E r \in DOMAIN runners, o \in PostOutcomes : detection_answered(r, o)
    \/ \E r \in DOMAIN runners : sleep_returns(r)
    \/ simulate_competition_ends

SpecPost == InitPost /\ [][NextPost]_vars

\* main.py: main(); the program takes its own steps, the handler answers
\* when, and if, it likes
InitMain == environ \in Environments({}) /\ InitRest

NextMain ==
    \/ main_loop
    \/ still_waiting
    \/ \E o \in HandlerOutcomes : post_ends(o)

SpecMain == InitMain /\ [][NextMain]_vars /\ WF_vars(main_loop)

----------------------------------------------------------------------------
(* Vocabulary of the properties *)

Cfg == config[1]

\* the call that made attempt i stopped right after it
EndedAt(i) == Len(log) = i /\ pc = "idle"

IsRetryableStatus(a) == a.kind = "response" /\ a.status \in status_forcelist

IsTransportFailure(a) == a.kind \in {"timeout", "connection"}

IsAccepted(a) ==
    /\ a.kind = "response"
    /\ a.status = 200
    /\ a.body.kind = "dict"
    /\ "status" \in a.body.keys

Is2xx(a) == a.kind = "response" /\ a.status >= 200 /\ a.status <= 299

----------------------------------------------------------------------------
(* Properties *)

\* C1: a single call to send_beacon_data performs at most 1 + MAX_RETRIES
\* send attempts.
C1_AttemptsWithinCeiling ==
    config # None => Len(log) <= 1 + Cfg.MAX_RETRIES

\* C2: when the first k attempts (k <= MAX_RETRIES) are all answered with a
\* retryable status, each of them is followed by another attempt, and when
\* the next answer is HTTP 200 with a JSON object containing 'status' the call
\* ends there, after exactly k + 1 attempts, returning that object.
C2_RetryThenAccepted ==
    /\ \A i \in 1..Len(log) :
          ( /\ i <= Cfg.MAX_RETRIES
            /\ \A j \in 1..i : IsRetryableStatus(log[j]) )
          => ~EndedAt(i)
    /\ \A k \in 0..(Len(log) - 1) :
          ( /\ k <= Cfg.MAX_RETRIES
            /\ \A j \in 1..k : IsRetryableStatus(log[j])
            /\ IsAccepted(log[k + 1]) )
          => /\ EndedAt(k + 1)
             /\ result.kind = "returned"
             /\ result.value = Some(log[k + 1].body)

\* C2 witness: 503, 503, then 200 with a valid body: three attempts, accepted.
C2_Witness ==
    /\ Len(log) = 3
    /\ log[1].status = 503 /\ log[2].status = 503
    /\ IsAccepted(log[3])
    /\ pc = "idle"
    /\ result.kind = "returned"

\* C3: a first answer with a non-2xx status outside the retryable set ends the
\* call after exactly one attempt, with HTTPError raised and nothing returned.
C3_OtherStatusTerminal ==
    ( /\ log # <<>>
      /\ log[1].kind = "response"
      /\ ~Is2xx(log[1])
      /\ log[1].status \notin status_forcelist )
    => /\ EndedAt(1)
       /\ result.kind = "HTTPError"

\* C4: whatever send_beacon_data returns is a JSON object containing 'status';
\* a 2xx answer whose body is not JSON, not an object, or has no 'status' ends
\* the call at that attempt with ValueError.
C4_InvalidBodyNeverSuccess ==
    /\ result.kind = "returned" =>
          /\ result.value # None
          /\ result.value[1].kind = "dict"
          /\ "status" \in result.value[1].keys
    /\ \A i \in 1..Len(log) :
          (Is2xx(log[i]) /\ ~(log[i].body.kind = "dict" /\ "status" \in log[i].body.keys))
          => /\ EndedAt(i)
             /\ result.kind = "ValueError"

\* C4 witness: a 200 answer whose JSON object lacks 'status' was rejected.
C4_Witness ==
    /\ log # <<>>
    /\ Is2xx(log[Len(log)])
    /\ log[Len(log)].body.kind = "dict"
    /\ "status" \notin log[Len(log)].body.keys
    /\ result.kind = "ValueError"

\* C5: an attempt that times out or cannot connect is followed by another
\* attempt while attempts remain; a call whose 1 + MAX_RETRIES attempts all
\* failed with a timeout, a connection failure or a retryable status has
\* ended with HTTPError.
C5_TransportFailureRetried ==
    /\ \A i \in 1..Len(log) :
          ( /\ i <= Cfg.MAX_RETRIES
            /\ IsTransportFailure(log[i])
            /\ \A j \in 1..i : IsTransportFailure(log[j]) \/ IsRetryableStatus(log[j]) )
          => ~EndedAt(i)
    /\ ( /\ log # <<>>
         /\ Len(log) >= 1 + Cfg.MAX_RETRIES
         /\ \A j \in 1..Len(log) : IsTransportFailure(log[j]) \/ IsRetryableStatus(log[j]) )
       => /\ pc = "idle"
          /\ result.kind = "HTTPError"

\* C5 witness: all 1 + MAX_RETRIES >= 3 attempts failed, a connection failure
\* among them and a timeout last, and the call gave up.
C5_Witness ==
    /\ config # None
    /\ Len(log) = 1 + Cfg.MAX_RETRIES
    /\ Len(log) >= 3
    /\ \E j \in 1..Len(log) : log[j].kind = "connection"
    /\ log[Len(log)].kind = "timeout"
    /\ pc = "idle"
    /\ result.kind = "HTTPError"

\* C6: the wait before the n-th retry is RETRY_DELAY * 2^(n-1) (stated for the
\* retries whose wait no Retry-After header dictates, and RETRY_DELAY >= 0).
C6_BackoffStartsAtRetryDelay ==
    \A n \in 1..Len(delays) :
        (Cfg.RETRY_DELAY >= 0 /\ log[n].retry_after = None)
        => delays[n] = Cfg.RETRY_DELAY * 2 ^ (n - 1)

\* C7: every configuration that was constructed has RSSI_THRESHOLD < 0.
C7_RssiThresholdNegative ==
    config # None => Cfg.RSSI_THRESHOLD < 0

\* C8: no HTTPClient exists for a configuration with an empty endpoint,
\* BATCH_SIZE < 1, BATCH_TIMEOUT <= 0, MAX_RETRIES < 0, RETRY_DELAY < 0 or
\* REQUEST_TIMEOUT <= 0.
C8_ClientOnlyFromValidConfig ==
    client # None =>
        /\ Cfg.ENDPOINT # <<>>
        /\ Cfg.BATCH_SIZE >= 1
        /\ Cfg.BATCH_TIMEOUT > 0
        /\ Cfg.MAX_RETRIES >= 0
        /\ Cfg.RETRY_DELAY >= 0
        /\ Cfg.REQUEST_TIMEOUT > 0

\* C9: constructing SystemConfig with SCAN_INTERVAL < 1 fails, and every
\* constructed configuration has SCAN_INTERVAL >= 1.
C9_ScanIntervalAtLeastOne ==
    /\ config # None => Cfg.SCAN_INTERVAL >= 1
    /\ ( /\ pc # "boot"
         /\ EnvParses(environ)
         /\ ReadConfig(environ).SCAN_INTERVAL < 1 )
       => /\ pc = "failed"
          /\ config = None
          /\ configError # None

\* C9 witness: construction failed on a scan interval below 1 alone.
C9_Witness ==
    /\ pc = "failed"
    /\ EnvParses(environ)
    /\ ReadConfig(environ).SCAN_INTERVAL < 1
    /\ ReadConfig(environ).RSSI_THRESHOLD < 0
    /\ configError = Some("SCAN_INTERVAL must be at least 1 second")

\* a step taken once the client exists leaves the shared state alone
DeliveryStepKeepsFrame ==
    pc \in {"idle", "posting"} =>
        /\ config' = config
        /\ environ' = environ
        /\ client' = client
        /\ sessions' = sessions
        /\ (pc = "posting" => (data' = data /\ payload' = payload))

\* C10: no step of a delivery changes the configuration or the environment it
\* was read from, replaces the client's session or creates a session, and the
\* BeaconData of a call in progress stays as it was passed in.
C10_DeliveryFrame == [][DeliveryStepKeepsFrame]_vars

\* C10 witness: a second call on the same client ended after a retry.
C10_Witness ==
    /\ calls = 2
    /\ pc = "idle"
    /\ Len(log) >= 2
    /\ result.kind # "none"
    /\ sessions = 1
    /\ client[1].session.id = 1

\* the fields of a BeaconData, and the value the record in hand has for one
BeaconFields == {"minor", "rssi", "timestamp", "battery_level", "temperature",
                 "humidity"}

RecordValue(k) ==
    IF k = "checkpoint_id" THEN Cfg.CHECKPOINT_ID
    ELSE IF k \in OptionalKeys THEN data[1][k][1]
    ELSE data[1][k]

\* the body carries field k with the value the record (or configuration) has,
\* written as decimal text
CarriesValue(body, k) ==
    /\ k \in DOMAIN body
    /\ body[k] = str(RecordValue(k))

\* C11 as claimed: every body sent carries all six fields of the record and
\* checkpoint_id, with the record's values, and every retry resends that body.
C11_BodyCarriesAllFields ==
    \A i \in 1..Len(wire) :
        /\ DOMAIN wire[i] = BeaconFields \cup {"checkpoint_id"}
        /\ \A k \in (BeaconFields \cup {"checkpoint_id"}) :
              (k \in OptionalKeys => data[1][k] # None) => CarriesValue(wire[i], k)
        /\ wire[i] = wire[1]

\* C11 amended: every attempt sends one body; it carries minor, rssi, timestamp
\* and checkpoint_id (the configuration's CHECKPOINT_ID), and each of
\* battery_level, temperature and humidity exactly when the record's value is
\* not None, all with the record's values; every retry resends that same body.
C11_BodyCarriesPresentFields ==
    /\ Len(wire) = Len(log)
    /\ \A i \in 1..Len(wire) : wire[i] = wire[1]
    /\ wire # <<>> =>
          /\ DOMAIN wire[1] =
                {k \in BeaconFields \cup {"checkpoint_id"} :
                    k \in OptionalKeys => data[1][k] # None}
          /\ \A k \in DOMAIN wire[1] : CarriesValue(wire[1], k)

\* C11 witness: a record without sensor extras was sent, retried, and sent again.
C11_Witness ==
    /\ Len(wire) >= 2
    /\ data[1].battery_level = None
    /\ "battery_level" \notin DOMAIN wire[2]
    /\ wire[2]["checkpoint_id"] = str(Cfg.CHECKPOINT_ID)

\* the last attempt of the call in hand was answered with an error status that
\* is not retried
EndedByErrorStatus ==
    /\ pc = "idle"
    /\ log # <<>>
    /\ log[Len(log)].kind = "response"
    /\ log[Len(log)].status >= 400
    /\ ~is_retry(retry, log[Len(log)].status, log[Len(log)].retry_after # None)

\* C15: when the call ends on an error status s that is not retried, the
\* HTTPError raised carries status_code = s and response_text = the body of that
\* response; status_code is None only when no response was received at all.
C15_ErrorCarriesStatus ==
    /\ EndedByErrorStatus =>
          /\ result.kind = "HTTPError"
          /\ result.status_code = Some(log[Len(log)].status)
          /\ result.response_text = Some(log[Len(log)].body)
    /\ (pc = "idle" /\ result.kind = "HTTPError" /\ result.status_code = None) =>
          (log = <<>> \/ IsTransportFailure(log[Len(log)]))

\* detection j of the same beacon was accepted less than a window before i
AcceptedWithinWindow(j, i) ==
    /\ j < i
    /\ events[j].beaconId = events[i].beaconId
    /\ events[j].accepted
    /\ events[i].t - events[j].t < cooldown(Cfg)

\* C12: of the detections of one beacon that arrive faster than the cool-down
\* window, exactly the first is accepted: a detection is rejected while an
\* accepted detection of its beacon is less than a window old, and a detection
\* with a trusted signal is accepted when there is none.
C12_FirstInWindowOnly ==
    \A i \in 1..Len(events) :
        /\ (\E j \in 1..Len(events) : AcceptedWithinWindow(j, i))
              => ~events[i].accepted
        /\ ( /\ strong_enough(Cfg, events[i].rssi)
             /\ ~\E j \in 1..Len(events) : AcceptedWithinWindow(j, i) )
              => events[i].accepted

\* C12 witness: beacon 96 detected three times within the window, one record
\* forwarded, in one batch.
C12_Witness ==
    /\ pc = "stopped"
    /\ Len(events) = 3
    /\ \A i \in 1..3 : events[i].beaconId = 96 /\ strong_enough(Cfg, events[i].rssi)
    /\ events[3].t > events[1].t
    /\ events[3].t - events[1].t < cooldown(Cfg)
    /\ events[1].accepted /\ ~events[2].accepted /\ ~events[3].accepted
    /\ Len(batcher.emitted) = 1
    /\ Len(batcher.emitted[1].records) = 1
    /\ batcher.emitted[1].records[1].minor = 96

\* the records of a sequence of batches, in order
RECURSIVE Flatten(_)
Flatten(batches) ==
    IF batches = <<>> THEN <<>>
    ELSE batches[1].records \o Flatten(Tail(batches))

\* every record the Batcher holds or has handed over
Forwarded == Flatten(batcher.emitted) \o batcher.open

\* C13: a detection whose signal is weaker than RSSI_THRESHOLD is never
\* accepted, whatever the timing, and no such record is held or handed over
\* for delivery.
C13_WeakSignalNeverAccepted ==
    /\ \A i \in 1..Len(events) :
          events[i].rssi < Cfg.RSSI_THRESHOLD => ~events[i].accepted
    /\ \A k \in 1..Len(Forwarded) : ~(Forwarded[k].rssi < Cfg.RSSI_THRESHOLD)

\* C13 witness: a weak detection of a beacon that was idle was rejected, and a
\* later strong detection of the same beacon was accepted and handed over.
C13_Witness ==
    /\ Len(events) >= 2
    /\ events[1].rssi < Cfg.RSSI_THRESHOLD
    /\ ~events[1].accepted
    /\ events[2].beaconId = events[1].beaconId
    /\ events[2].accepted
    /\ batcher.emitted # <<>>

\* C14: every accepted record is in exactly one place (one emitted batch, or
\* the open batch until it is flushed), after shutdown in exactly one
\* emitted batch; nothing else is emitted, and batches are emitted in
\* non-decreasing order of their first record's insertion time.
C14_ExactlyOneBatchInOrder ==
    /\ \A i \in 1..Len(events) :
          Cardinality({k \in 1..Len(Forwarded) : Forwarded[k].id = i}) =
              IF events[i].accepted THEN 1 ELSE 0
    /\ Len(Forwarded) = Cardinality({i \in 1..Len(events) : events[i].accepted})
    /\ pc = "stopped" => batcher.open = <<>>
    /\ \A m \in 1..Len(batcher.emitted) :
          /\ batcher.emitted[m].records # <<>>
          /\ batcher.emitted[m].first_at = batcher.emitted[m].records[1].timestamp
          /\ \A n \in 1..Len(batcher.emitted) :
                m < n => batcher.emitted[m].first_at <= batcher.emitted[n].first_at

\* C14 witness: after shutdown, three accepted records in two batches, the
\* first closed by size and the second by the shutdown flush.
C14_Witness ==
    /\ pc = "stopped"
    /\ Len(batcher.emitted) = 2
    /\ Len(batcher.emitted[1].records) = 2
    /\ Len(batcher.emitted[2].records) = 1
    /\ batcher.emitted[1].first_at < batcher.emitted[2].first_at

\* C16: simulate_runner makes exactly count POST attempts whatever each
\* request's outcome is: a runner that has ended has sent all of its
\* detections.
C16_RunnerSendsAllDetections ==
    \A r \in DOMAIN futures :
        Finished(futures[r]) => futures[r].sent = runners[r].count

\* the detections the three runners are to send: 3 + 3 + 3
TotalDetections == runners[1].count + runners[2].count + runners[3].count

\* the positions in posts of the requests of runner r
PostsOf(r) == {k \in 1..Len(posts) : posts[k].minor = runners[r].minor}

\* C17: simulate_competition returns only after every runner has finished all
\* of its detections (nine posts); each runner's detections are sent strictly
\* in order, the next one only after the previous request completed; no
\* interleaving loses or duplicates a detection.
C17_CompetitionJoinsAllRunners ==
    /\ competition # "running" => \A r \in DOMAIN futures : Finished(futures[r])
    /\ competition = "returned" =>
          /\ \A r \in DOMAIN futures :
                futures[r].phase = "done" /\ futures[r].sent = runners[r].count
          /\ Len(posts) = TotalDetections
    /\ \A r \in DOMAIN futures :
          /\ futures[r].sent - futures[r].answered =
                IF futures[r].phase = "posting" THEN 1 ELSE 0
          /\ {posts[k].detection : k \in PostsOf(r)} = 1..futures[r].sent
          /\ Cardinality(PostsOf(r)) = futures[r].sent
          /\ \A k, l \in PostsOf(r) : k < l => posts[k].detection < posts[l].detection
    /\ \A k \in 1..Len(posts) : \E r \in DOMAIN runners : k \in PostsOf(r)

\* C17 witness: the competition returned after nine posts in which the
\* runners interleaved: the fastest runner posted first and the slowest last.
C17_Witness ==
    /\ competition = "returned"
    /\ Len(posts) = TotalDetections
    /\ posts[1].minor = 98
    /\ posts[2].minor = 96
    /\ posts[3].minor = 97
    /\ posts[4].minor = 98
    /\ posts[9].minor = 96

\* the part of C18 that is about what main() does
OnePostAfterDetection ==
    /\ handlerPosts <= 1
    /\ mpc # "loop" =>
          /\ handlerPosts = 1
          /\ stdout # <<>>
          /\ stdout[Len(DetectedLines(detect_message.printed))] =
                Line("Detected message", 0, "minor:96")
    /\ mpc = "done" =>
          /\ answer # None
          /\ stdout = DetectedLines(detect_message.printed) \o <<report(answer[1])>>

\* C18: main() always terminates, after exactly one call of post_to_handler
\* made right after the detection of 'minor:96'; whatever the outcome of the
\* post, post_to_handler does not raise and is not repeated.
C18_MainTerminatesAfterOnePost ==
    /\ <>(mpc = "done")
    /\ []OnePostAfterDetection

====
